---- MODULE Spec2Model ----
(***************************************************************************)
(* Model of document_portal's utils/document_ops.py: the format dispatcher *)
(* load_documents with its SQL, image and HTML branches, the text          *)
(* aggregators concat_for_analysis / concat_for_comparison, the handler    *)
(* probe read_pdf_via_handler, and the /chat/index session contract that   *)
(* tests/test_unit_cases.py exercises.                                     *)
(*                                                                         *)
(* Text is a sequence of tokens (TLA+ strings); f-strings and joins are    *)
(* concatenations of token sequences.  A dict lookup d.get(k) is a set:    *)
(* {} for None (key absent), {v} for the value v.                          *)
(***************************************************************************)
EXTENDS Integers, Sequences, FiniteSets, TLC

VARIABLES pc, op, args, result, called, paths, i, docs, loaded, failure,
          sessions, response

vars == <<pc, op, args, result, called, paths, i, docs, loaded, failure,
          sessions, response>>

(* ------------------------------ bounds --------------------------------- *)
MaxPaths == 2
MaxDocs == 2
MaxCmpDocs == 1
MaxTables == 2
MaxRows == 2

(* ------------------------------ helpers -------------------------------- *)
SeqsUpTo(S, n) == UNION {[1..k -> S] : k \in 0..n}

RECURSIVE Flatten(_)
Flatten(ss) == IF ss = <<>> THEN <<>> ELSE Head(ss) \o Flatten(Tail(ss))

\* Does `pat` occur in `text` at position k (1-based)?
OccursAt(pat, text, k) ==
    /\ k >= 1
    /\ k + Len(pat) - 1 =< Len(text)
    /\ \A j \in 1..Len(pat) : text[k + j - 1] = pat[j]

Occurrences(pat, text) == {k \in 1..Len(text) : OccursAt(pat, text, k)}

Contains(pat, text) == Occurrences(pat, text) # {}

\* The n-th smallest element of a finite set of integers.
RECURSIVE NthSmallest(_, _)
NthSmallest(S, n) ==
    LET m == CHOOSE x \in S : \A y \in S : x =< y
    IN IF n = 1 THEN m ELSE NthSmallest(S \ {m}, n - 1)

(* ------------------------------ Document ------------------------------- *)
None == {}
NoMetadata == [source |-> None, file_path |-> None]

\* langchain Document(page_content=..., metadata=...); metadata defaults to {}.
Document(content, metadata) == [page_content |-> content, metadata |-> metadata]

\* Python truthiness of the value of dict.get: None and "" are falsy.
Truthy(opt) == opt # None /\ opt # {<<>>}

TheValue(opt) == CHOOSE v \in opt : TRUE

(* ----------------------- outcomes of a call ---------------------------- *)
NoExc == [type |-> "none", cause |-> "none"]
Return(v) == [kind |-> "return", value |-> v, exc |-> NoExc]
Raise(e) == [kind |-> "raise", value |-> <<>>, exc |-> e]
Error(t) == [type |-> t, cause |-> "none"]
NoResult == [kind |-> "none", value |-> <<>>, exc |-> NoExc]

(* ------------------------- paths and extensions ------------------------ *)
\* A suffix is a sequence of characters; str.lower() maps each character.
UpperToLower ==
    [c \in {"A","B","C","D","E","F","G","H","I","J","K","L","M","N","O","P","Q",
            "R","S","T","U","V","W","X","Y","Z"} |->
       CASE c = "A" -> "a" [] c = "B" -> "b" [] c = "C" -> "c" [] c = "D" -> "d"
         [] c = "E" -> "e" [] c = "F" -> "f" [] c = "G" -> "g" [] c = "H" -> "h"
         [] c = "I" -> "i" [] c = "J" -> "j" [] c = "K" -> "k" [] c = "L" -> "l"
         [] c = "M" -> "m" [] c = "N" -> "n" [] c = "O" -> "o" [] c = "P" -> "p"
         [] c = "Q" -> "q" [] c = "R" -> "r" [] c = "S" -> "s" [] c = "T" -> "t"
         [] c = "U" -> "u" [] c = "V" -> "v" [] c = "W" -> "w" [] c = "X" -> "x"
         [] c = "Y" -> "y" [] c = "Z" -> "z"]

LowerChar(c) == IF c \in DOMAIN UpperToLower THEN UpperToLower[c] ELSE c

Lower(s) == [k \in 1..Len(s) |-> LowerChar(s[k])]

EXT_PDF == <<".", "p", "d", "f">>
EXT_DOCX == <<".", "d", "o", "c", "x">>
EXT_TXT == <<".", "t", "x", "t">>
EXT_PPT == <<".", "p", "p", "t">>
EXT_PPTX == <<".", "p", "p", "t", "x">>
EXT_MD == <<".", "m", "d">>
EXT_CSV == <<".", "c", "s", "v">>
EXT_XLSX == <<".", "x", "l", "s", "x">>
EXT_DB == <<".", "d", "b">>
EXT_SQLITE == <<".", "s", "q", "l", "i", "t", "e">>
EXT_JPG == <<".", "j", "p", "g">>
EXT_JPEG == <<".", "j", "p", "e", "g">>
EXT_PNG == <<".", "p", "n", "g">>
EXT_BMP == <<".", "b", "m", "p">>
EXT_GIF == <<".", "g", "i", "f">>
EXT_TIFF == <<".", "t", "i", "f", "f">>
EXT_WEBP == <<".", "w", "e", "b", "p">>
EXT_HTML == <<".", "h", "t", "m", "l">>
EXT_HTM == <<".", "h", "t", "m">>
EXT_XHTML == <<".", "x", "h", "t", "m", "l">>

SUPPORTED_EXTENSIONS ==
    {EXT_PDF, EXT_DOCX, EXT_TXT, EXT_PPT, EXT_PPTX, EXT_MD, EXT_CSV, EXT_XLSX,
     EXT_DB, EXT_SQLITE, EXT_JPG, EXT_JPEG, EXT_PNG, EXT_BMP, EXT_GIF, EXT_TIFF,
     EXT_WEBP, EXT_HTML, EXT_HTM, EXT_XHTML}

\* The suffixes the model's paths carry: every supported one, two with
\* upper-case letters, and two that no branch handles.
Suffixes ==
    SUPPORTED_EXTENSIONS \cup
    {<<".", "P", "D", "F">>, <<".", "P", "n", "G">>, <<".", "e", "x", "e">>, <<>>}

Paths == [stem : {"a"}, suffix : Suffixes]

\* str(p)
PathStr(p) == <<p.stem>> \o p.suffix

\* The if/elif chain of load_documents: which loader a lower-cased suffix
\* selects; the final else skips the path.
LoaderKindFallback(ext) ==
    IF ext = EXT_PDF THEN "PyPDFLoader"
    ELSE IF ext = EXT_DOCX THEN "Docx2txtLoader"
    ELSE IF ext \in {EXT_PPT, EXT_PPTX} THEN "UnstructuredPowerPointLoader"
    ELSE IF ext = EXT_MD THEN "UnstructuredMarkdownLoader"
    ELSE IF ext = EXT_CSV THEN "CSVLoader"
    ELSE IF ext = EXT_XLSX THEN "UnstructuredExcelLoader"
    ELSE IF ext \in {EXT_DB, EXT_SQLITE} THEN "load_sql_database"
    ELSE IF ext \in {EXT_JPG, EXT_JPEG, EXT_PNG, EXT_BMP, EXT_GIF, EXT_TIFF, EXT_WEBP}
         THEN "describe_image_ai"
    ELSE IF ext \in {EXT_HTML, EXT_HTM, EXT_XHTML} THEN "extract_html"
    ELSE "TextLoader"

LoaderKind(ext) ==
    IF ext = EXT_PDF THEN "PyPDFLoader"
    ELSE IF ext = EXT_DOCX THEN "Docx2txtLoader"
    ELSE IF ext = EXT_TXT THEN "TextLoader"
    ELSE IF ext \in {EXT_PPT, EXT_PPTX} THEN "UnstructuredPowerPointLoader"
    ELSE IF ext = EXT_MD THEN "UnstructuredMarkdownLoader"
    ELSE IF ext = EXT_CSV THEN "CSVLoader"
    ELSE IF ext = EXT_XLSX THEN "UnstructuredExcelLoader"
    ELSE IF ext \in {EXT_DB, EXT_SQLITE} THEN "load_sql_database"
    ELSE IF ext \in {EXT_JPG, EXT_JPEG, EXT_PNG, EXT_BMP, EXT_GIF, EXT_TIFF, EXT_WEBP}
         THEN "describe_image_ai"
    ELSE IF ext \in {EXT_HTML, EXT_HTM, EXT_XHTML} THEN "extract_html"
    ELSE "skip"

LibraryLoaders ==
    {"PyPDFLoader", "Docx2txtLoader", "TextLoader", "UnstructuredPowerPointLoader",
     "UnstructuredMarkdownLoader", "CSVLoader", "UnstructuredExcelLoader"}

(* ------------------------- SQL table flattener ------------------------- *)
RECURSIVE JoinWith(_, _)
\* sep.join(items) for a sequence of texts
JoinWith(items, sep) ==
    IF items = <<>> THEN <<>>
    ELSE IF Len(items) = 1 THEN Head(items)
    ELSE Head(items) \o sep \o JoinWith(Tail(items), sep)

\* A column value: an int or a str whose text is a token sequence.
IntVal(t) == [type |-> "int", text |-> <<t>>]
StrVal(ts) == [type |-> "str", text |-> ts]

\* repr() of a value: a str is quoted and its newlines are escaped.
Repr(v) ==
    IF v.type = "str"
    THEN <<"'">> \o [k \in 1..Len(v.text) |->
                       IF v.text[k] = "\n" THEN "\\n" ELSE v.text[k]] \o <<"'">>
    ELSE v.text

\* f"{row}": the tuple-style text of a result row.
RowStr(row) ==
    <<"(">> \o JoinWith([k \in 1..Len(row) |-> Repr(row[k])], <<", ">>)
            \o (IF Len(row) = 1 THEN <<",">> ELSE <<>>) \o <<")">>

RowsTextFirstOnly(text_data, rows) ==
    IF rows = <<>> THEN text_data ELSE text_data \o RowStr(Head(rows)) \o <<"\n">>

RECURSIVE RowsText(_, _)
\* for row in rows: text_data += f"{row}\n"
RowsText(text_data, rows) ==
    IF rows = <<>> THEN text_data
    ELSE RowsText(text_data \o RowStr(Head(rows)) \o <<"\n">>, Tail(rows))

\* The body of the per-table loop: one Document for one table.
TableDocument(table) ==
    LET col_names == [k \in 1..Len(table.cols) |-> <<table.cols[k]>>]
        text_data == <<"Table: ", table.name, "\n", "Columns: ">>
                       \o JoinWith(col_names, <<", ">>) \o <<"\n", "Rows:", "\n">>
    IN Document(RowsText(text_data, table.rows), NoMetadata)

\* load_sql_database on a database whose connection works (ok) or not.
load_sql_database(db) ==
    IF ~db.ok THEN Raise(Error("OperationalError"))
    ELSE Return([k \in 1..Len(db.tables) |-> TableDocument(db.tables[k])])

TableNames == {"users", "orders", "items"}

ColumnsOf(name) == IF name = "orders" THEN <<"id">> ELSE <<"id", "name">>

RowPool(name) ==
    IF name = "orders" THEN {<<IntVal("1")>>, <<IntVal("2")>>}
    ELSE {<<IntVal("1"), StrVal(<<"a">>)>>, <<IntVal("2"), StrVal(<<"a", "\n", "b">>)>>}

AllTables ==
    UNION {[name : {n}, cols : {ColumnsOf(n)}, rows : SeqsUpTo(RowPool(n), MaxRows)]
             : n \in TableNames}

TableSeqs ==
    UNION {{ts \in [1..k -> AllTables] :
              \A a, b \in 1..k : a # b => ts[a].name # ts[b].name} : k \in 0..MaxTables}

DbPool == [ok : {TRUE}, tables : TableSeqs] \cup {[ok |-> FALSE, tables |-> <<>>]}

\* The databases behind the .db/.sqlite paths of load_documents.
UsersTable ==
    [name |-> "users", cols |-> <<"id", "name">>,
     rows |-> <<<<IntVal("1"), StrVal(<<"a">>)>>>>]

DbFiles ==
    {[ok |-> TRUE, tables |-> <<UsersTable>>], [ok |-> TRUE, tables |-> <<>>],
     [ok |-> FALSE, tables |-> <<>>]}

(* ---------------------------- image describer -------------------------- *)
\* What describe_image_ai meets: the file opens or not, the model call
\* answers with a text or fails.
ImageWorlds ==
    {[file |-> "ok", model |-> "ok"], [file |-> "missing", model |-> "ok"],
     [file |-> "ok", model |-> "fails"]}

describe_image_ai(image_path, world) ==
    IF world.file # "ok" THEN Raise(Error("FileNotFoundError"))
    ELSE IF world.model # "ok" THEN Raise(Error("UpstreamServiceError"))
    ELSE Return(<<Document(<<"a description">>, NoMetadata)>>)

(* ---------------------------- HTML extractor --------------------------- *)
\* An HTML file is a sequence of elements [tag, text]; unreadable files are
\* the value "missing".
HtmlFiles ==
    {[ok |-> TRUE, elements |-> <<[tag |-> "p", text |-> "Hello"]>>],
     [ok |-> TRUE, elements |-> <<[tag |-> "script", text |-> "x()"],
                                  [tag |-> "p", text |-> "Hi"],
                                  [tag |-> "p", text |-> "there"]>>],
     [ok |-> FALSE, elements |-> <<>>]}

extract_html(file_path, html) ==
    IF ~html.ok THEN Raise(Error("FileNotFoundError"))
    ELSE LET visible == SelectSeq(html.elements,
                                  LAMBDA e : e.tag \notin {"script", "style"})
             text == JoinWith([k \in 1..Len(visible) |-> <<visible[k].text>>], <<"\n">>)
         IN Return(<<Document(text, [source |-> {file_path}, file_path |-> None])>>)

(* ------------------------- library loaders ----------------------------- *)
\* loader.load() of a langchain loader: Documents carrying the path as
\* their source, or an exception.
LibraryLoad(file_path) ==
    LET page(t) == Document(<<t>>, [source |-> {file_path}, file_path |-> None])
    IN {Return(<<page("Hello World")>>),
        Return(<<page("page 1"), page("page 2")>>),
        Return(<<>>),
        Raise(Error("LoaderError"))}

\* Everything one iteration of the for loop of load_documents can obtain
\* for path p from the branch `kind`.
BranchOutcomes(kind, p) ==
    IF kind \in LibraryLoaders THEN LibraryLoad(PathStr(p))
    ELSE IF kind = "load_sql_database" THEN {load_sql_database(db) : db \in DbFiles}
    ELSE IF kind = "describe_image_ai"
         THEN {describe_image_ai(PathStr(p), w) : w \in ImageWorlds}
    ELSE IF kind = "extract_html" THEN {extract_html(PathStr(p), h) : h \in HtmlFiles}
    ELSE {Return(<<>>)}

\* except Exception as e: raise DocumentPortalException("Error loading documents", e) from e
OnExceptionReraise(docs_so_far, e) == Raise(e)

OnExceptionPartial(docs_so_far, e) == Return(docs_so_far)

OnException(docs_so_far, e) ==
    Raise([type |-> "DocumentPortalException", cause |-> e.type])

(* ----------------------------- text aggregator ------------------------- *)
SOURCE_MARKER == <<"---", " ", "SOURCE:">>
REFERENCE_MARKER == <<"<<REFERENCE_DOCUMENTS>>">>
ACTUAL_MARKER == <<"<<ACTUAL_DOCUMENTS>>">>

\* d.metadata.get("source", d.metadata.get("file_path", "unknown")): a
\* lookup by presence instead of by truthiness.
SourceLabelByPresence(d) ==
    IF d.metadata.source # None THEN TheValue(d.metadata.source)
    ELSE IF d.metadata.file_path # None THEN TheValue(d.metadata.file_path)
    ELSE <<"unknown">>

\* src = d.metadata.get("source") or d.metadata.get("file_path") or "unknown"
SourceLabel(d) ==
    IF Truthy(d.metadata.source) THEN TheValue(d.metadata.source)
    ELSE IF Truthy(d.metadata.file_path) THEN TheValue(d.metadata.file_path)
    ELSE <<"unknown">>

\* f"\n--- SOURCE: {src} ---\n{d.page_content}"
Part(d) ==
    <<"\n">> \o SOURCE_MARKER \o <<" ">> \o SourceLabel(d) \o <<" ", "---", "\n">>
             \o d.page_content

\* A variant that writes no header for a Document without content.
concat_for_analysis_skipping_empty(ds) ==
    LET kept == SelectSeq(ds, LAMBDA d : d.page_content # <<>>)
    IN JoinWith([k \in 1..Len(kept) |-> Part(kept[k])], <<"\n">>)

concat_for_analysis(ds) ==
    JoinWith([k \in 1..Len(ds) |-> Part(ds[k])], <<"\n">>)

\* A variant that leaves out the block of an empty Document list.
concat_for_comparison_omitting_empty(ref_docs, act_docs) ==
    LET left == concat_for_analysis(ref_docs)
        right == concat_for_analysis(act_docs)
    IN (IF ref_docs = <<>> THEN <<>> ELSE REFERENCE_MARKER \o <<"\n">> \o left \o <<"\n", "\n">>)
       \o (IF act_docs = <<>> THEN <<>> ELSE ACTUAL_MARKER \o <<"\n">> \o right)

\* f"<<REFERENCE_DOCUMENTS>>\n{left}\n\n<<ACTUAL_DOCUMENTS>>\n{right}"
concat_for_comparison(ref_docs, act_docs) ==
    LET left == concat_for_analysis(ref_docs)
        right == concat_for_analysis(act_docs)
    IN REFERENCE_MARKER \o <<"\n">> \o left \o <<"\n", "\n">>
       \o ACTUAL_MARKER \o <<"\n">> \o right

\* The Documents handed to the aggregators: contents with and without the
\* marker texts, metadata with absent, empty and non-empty values.
AnalysisContents == {<<>>, <<"a">>, <<"x">> \o SOURCE_MARKER}
AnalysisSources == {None, {<<>>}, {<<"s">>}, {SOURCE_MARKER}}
AnalysisFilePaths == {None, {<<>>}, {<<"f">>}}

AnalysisDocs ==
    {Document(c, [source |-> src, file_path |-> fp]) :
       c \in AnalysisContents, src \in AnalysisSources, fp \in AnalysisFilePaths}

ComparisonDocs ==
    {Document(c, [source |-> src, file_path |-> None]) :
       c \in {<<"a">>, REFERENCE_MARKER, ACTUAL_MARKER, <<>>},
       src \in {None, {<<"s">>}, {ACTUAL_MARKER}}}

(* ----------------------------- handler probe --------------------------- *)
\* A handler: which of the two read methods it has, and whether each
\* returns a text or raises.
Handlers ==
    [has_read_pdf : BOOLEAN, has_read_ : BOOLEAN,
     read_pdf : {"text", "raises"}, read_ : {"text", "raises"}]

HandlerPaths == {"a.pdf", "b.pdf", "c.pdf"}

\* Calling handler.<method>(path).
CallMethod(handler, method, path) ==
    LET behaviour == IF method = "read_pdf" THEN handler.read_pdf ELSE handler.read_
    IN IF behaviour = "text" THEN Return(<<method, "(", path, ")">>)
       ELSE Raise(Error("IOError"))

\* A probe that tries read_ first.
read_pdf_via_handler_read_first(handler, path) ==
    IF handler.has_read_
    THEN [outcome |-> CallMethod(handler, "read_", path), called |-> <<"read_">>]
    ELSE IF handler.has_read_pdf
    THEN [outcome |-> CallMethod(handler, "read_pdf", path), called |-> <<"read_pdf">>]
    ELSE [outcome |-> Raise(Error("RuntimeError")), called |-> <<>>]

\* The outcome of read_pdf_via_handler and the handler methods it called.
read_pdf_via_handler(handler, path) ==
    IF handler.has_read_pdf
    THEN [outcome |-> CallMethod(handler, "read_pdf", path), called |-> <<"read_pdf">>]
    ELSE IF handler.has_read_
    THEN [outcome |-> CallMethod(handler, "read_", path), called |-> <<"read_">>]
    ELSE [outcome |-> Raise(Error("RuntimeError")), called |-> <<>>]

(* ----------------------- /chat/index and /chat/query ------------------- *)
SessionIds == {"sess1", "sess_update", "s3"}
FileNames == {"doc.txt", "notes.md"}
DefaultK == 5

NoSession == [exists |-> FALSE, index |-> {}]
NoResponse ==
    [endpoint |-> "none", status |-> 0, session_id |-> "", k |-> 0,
     requested |-> "", existed |-> FALSE]

\* A variant that answers a re-ingest with a fresh identifier.
IndexResponseFreshId(session_id, existed) ==
    [endpoint |-> "/chat/index", status |-> 200,
     session_id |-> IF existed THEN "new-session" ELSE session_id,
     k |-> DefaultK, requested |-> session_id, existed |-> existed]

\* The response of /chat/index: {session_id, k}.
IndexResponse(session_id, existed) ==
    [endpoint |-> "/chat/index", status |-> 200, session_id |-> session_id,
     k |-> DefaultK, requested |-> session_id, existed |-> existed]

\* The index of a session after an ingest: merged with or replaced by the
\* new files (the policy is the vector store's).
IndexAfter(old, files) == {old \cup files, files}

(* ------------------------------- state --------------------------------- *)
NoFailure == [at |-> 0, kind |-> "none", exc |-> NoExc]

Init ==
    /\ pc = "idle"
    /\ op = "none"
    /\ args = <<>>
    /\ result = NoResult
    /\ called = <<>>
    /\ paths = <<>>
    /\ i = 0
    /\ docs = <<>>
    /\ loaded = <<>>
    /\ failure = NoFailure
    /\ sessions = [sid \in SessionIds |-> NoSession]
    /\ response = NoResponse

loadVars == <<paths, i, docs, loaded, failure>>
webVars == <<sessions, response>>

(* --------------------------- load_documents ---------------------------- *)
\* load_documents(paths): docs = [] and the for loop is entered.
LoadDocumentsCall ==
    /\ pc = "idle"
    /\ \E ps \in SeqsUpTo(Paths, MaxPaths) :
         /\ paths' = ps
         /\ args' = ps
    /\ op' = "load_documents"
    /\ pc' = "loop"
    /\ i' = 1
    /\ docs' = <<>>
    /\ loaded' = <<>>
    /\ failure' = NoFailure
    /\ UNCHANGED <<result, called, webVars>>

\* One iteration of the for loop: the branch for paths[i] extends docs, or
\* raises and the except clause ends the call.
LoadDocumentsStep ==
    /\ pc = "loop"
    /\ i =< Len(paths)
    /\ LET p == paths[i]
           ext == Lower(p.suffix)
           kind == LoaderKind(ext)
       IN \E out \in BranchOutcomes(kind, p) :
            IF out.kind = "raise"
            THEN /\ result' = OnException(docs, out.exc)
                 /\ failure' = [at |-> i, kind |-> kind, exc |-> out.exc]
                 /\ pc' = "done"
                 /\ UNCHANGED <<i, docs, loaded>>
            ELSE /\ docs' = docs \o out.value
                 /\ loaded' = Append(loaded, out.value)
                 /\ i' = i + 1
                 /\ UNCHANGED <<pc, result, failure>>
    /\ UNCHANGED <<op, args, called, paths, webVars>>

\* The loop is exhausted: return docs.
LoadDocumentsReturn ==
    /\ pc = "loop"
    /\ i > Len(paths)
    /\ result' = Return(docs)
    /\ pc' = "done"
    /\ UNCHANGED <<op, args, called, loadVars, webVars>>

(* ------------------------- the other operations ------------------------ *)
LoadSqlDatabaseCall ==
    /\ pc = "idle"
    /\ \E db \in DbPool :
         /\ args' = db
         /\ result' = load_sql_database(db)
    /\ op' = "load_sql_database"
    /\ pc' = "done"
    /\ UNCHANGED <<called, loadVars, webVars>>

ConcatForAnalysisCall ==
    /\ pc = "idle"
    /\ \E ds \in SeqsUpTo(AnalysisDocs, MaxDocs) :
         /\ args' = ds
         /\ result' = Return(concat_for_analysis(ds))
    /\ op' = "concat_for_analysis"
    /\ pc' = "done"
    /\ UNCHANGED <<called, loadVars, webVars>>

ConcatForComparisonCall ==
    /\ pc = "idle"
    /\ \E ref_docs \in SeqsUpTo(ComparisonDocs, MaxCmpDocs) :
         \E act_docs \in SeqsUpTo(ComparisonDocs, MaxCmpDocs) :
           /\ args' = [ref |-> ref_docs, act |-> act_docs]
           /\ result' = Return(concat_for_comparison(ref_docs, act_docs))
    /\ op' = "concat_for_comparison"
    /\ pc' = "done"
    /\ UNCHANGED <<called, loadVars, webVars>>

ReadPdfViaHandlerCall ==
    /\ pc = "idle"
    /\ \E handler \in Handlers :
         \E path \in HandlerPaths :
           LET r == read_pdf_via_handler(handler, path)
           IN /\ args' = [handler |-> handler, path |-> path]
              /\ result' = r.outcome
              /\ called' = r.called
    /\ op' = "read_pdf_via_handler"
    /\ pc' = "done"
    /\ UNCHANGED <<loadVars, webVars>>

\* The caller has the outcome; the next call starts from scratch.
Finish ==
    /\ pc = "done"
    /\ pc' = "idle"
    /\ op' = "none"
    /\ args' = <<>>
    /\ result' = NoResult
    /\ called' = <<>>
    /\ paths' = <<>>
    /\ i' = 0
    /\ docs' = <<>>
    /\ loaded' = <<>>
    /\ failure' = NoFailure
    /\ UNCHANGED webVars

Next ==
    \/ LoadDocumentsCall
    \/ LoadDocumentsStep
    \/ LoadDocumentsReturn
    \/ LoadSqlDatabaseCall
    \/ ConcatForAnalysisCall
    \/ ConcatForComparisonCall
    \/ ReadPdfViaHandlerCall
    \/ Finish

Spec == Init /\ [][Next]_vars

(* --------------------------- the web endpoints ------------------------- *)
\* POST /chat/index with files and a session_id.
ChatIndex ==
    \E sid \in SessionIds :
      \E files \in (SUBSET FileNames) \ {{}} :
        \E index \in IndexAfter(sessions[sid].index, files) :
          /\ response' = IndexResponse(sid, sessions[sid].exists)
          /\ sessions' = [sessions EXCEPT ![sid] = [exists |-> TRUE, index |-> index]]
          /\ UNCHANGED <<pc, op, args, result, called, loadVars>>

\* POST /chat/query with a question and, possibly, a session_id.
ChatQuery ==
    \E sid \in SessionIds \cup {""} :
      /\ response' =
           IF sid = ""
           THEN [NoResponse EXCEPT !.endpoint = "/chat/query", !.status = 400]
           ELSE [NoResponse EXCEPT !.endpoint = "/chat/query", !.status = 200,
                                   !.session_id = sid, !.requested = sid,
                                   !.existed = sessions[sid].exists]
      /\ UNCHANGED <<sessions, pc, op, args, result, called, loadVars>>

NextSession == ChatIndex \/ ChatQuery

SpecSession == Init /\ [][NextSession]_vars

(* ============================== properties ============================= *)
Min(S) == CHOOSE x \in S : \A y \in S : x =< y

LoadDone == op = "load_documents" /\ pc = "done"

\* A path no branch of the dispatcher is meant for.
Unsupported(p) == Lower(p.suffix) \notin SUPPORTED_EXTENSIONS

RECURSIVE SupportedOnly(_, _)
\* The Documents of `produced` that come from supported paths, in order.
SupportedOnly(ps, produced) ==
    IF produced = <<>> THEN <<>>
    ELSE (IF Unsupported(Head(ps)) THEN <<>> ELSE Head(produced))
         \o SupportedOnly(Tail(ps), Tail(produced))

\* C1: a path whose lower-cased suffix is not a supported extension adds no
\* Document and never makes load_documents raise; a call that returns hands
\* back exactly the Documents of the other paths.
C1_UnsupportedSkipped ==
    op = "load_documents" =>
      /\ \A k \in 1..Len(loaded) : Unsupported(paths[k]) => loaded[k] = <<>>
      /\ failure.at # 0 => ~Unsupported(paths[failure.at])
      /\ (pc = "done" /\ failure.at = 0) =>
           /\ result.kind = "return"
           /\ result.value = SupportedOnly(paths, loaded)

C1_Witness ==
    /\ LoadDone
    /\ result.kind = "return"
    /\ result.value # <<>>
    /\ \E k \in 1..Len(paths) : Unsupported(paths[k])

\* C2: load_documents is all-or-nothing: when a loader failed the call
\* raises DocumentPortalException wrapping the original error and hands back
\* no Document; otherwise it returns every Document loaded, for every path.
C2_AllOrNothing ==
    LoadDone =>
      IF failure.at # 0
      THEN /\ result.kind = "raise"
           /\ result.exc.type = "DocumentPortalException"
           /\ result.exc.cause = failure.exc.type
           /\ result.value = <<>>
      ELSE /\ result.kind = "return"
           /\ Len(loaded) = Len(paths)
           /\ result.value = Flatten(loaded)

C2_Witness ==
    /\ LoadDone
    /\ failure.at = 2
    /\ loaded # <<>>
    /\ loaded[1] # <<>>
    /\ result.kind = "raise"

HasOrigin(d) == Truthy(d.metadata.source) \/ Truthy(d.metadata.file_path)

\* C6: every Document load_documents returns carries an origin identifier
\* (file path or table name) in its metadata, whatever branch produced it.
C6_EveryDocumentHasOrigin ==
    (LoadDone /\ result.kind = "return") =>
      \A k \in 1..Len(result.value) : HasOrigin(result.value[k])

ImageCallFailed ==
    /\ LoadDone
    /\ failure.kind = "describe_image_ai"
    /\ failure.exc.type = "UpstreamServiceError"

\* C9 as stated: a failure of the multimodal model call reaches the caller
\* of load_documents as the original exception, not as the wrapped one.
C9_PropagatesAsIs ==
    ImageCallFailed =>
      /\ result.kind = "raise"
      /\ result.exc = failure.exc

\* C9 amended: describe_image_ai lets the failure of the model call through
\* unchanged, and load_documents wraps it, like any loader failure, in a
\* DocumentPortalException whose cause is the original exception.
C9_WrappedByLoad ==
    /\ \A w \in ImageWorlds :
         (w.file = "ok" /\ w.model = "fails") =>
           describe_image_ai(<<"a">>, w) = Raise(Error("UpstreamServiceError"))
    /\ ImageCallFailed =>
         /\ result.kind = "raise"
         /\ result.exc.type = "DocumentPortalException"
         /\ result.exc.cause = "UpstreamServiceError"

C9_Witness == ImageCallFailed /\ failure.at = 2 /\ result.kind = "raise"

RECURSIVE SplitLines(_)
\* The lines of a text (as str.splitlines()).
SplitLines(text) ==
    IF text = <<>> THEN <<>>
    ELSE LET nl == {k \in 1..Len(text) : text[k] = "\n"}
         IN IF nl = {} THEN <<text>>
            ELSE <<SubSeq(text, 1, Min(nl) - 1)>>
                   \o SplitLines(SubSeq(text, Min(nl) + 1, Len(text)))

SqlDone == op = "load_sql_database" /\ pc = "done"

\* C8: load_sql_database returns one Document per table, in enumeration
\* order; its content is the line "Table: <name>", the line of column
\* names, the line "Rows:" and then exactly one line per row in fetch order.
C8_OneDocumentPerTable ==
    (SqlDone /\ args.ok) =>
      /\ result.kind = "return"
      /\ Len(result.value) = Len(args.tables)
      /\ \A k \in 1..Len(args.tables) :
           LET t == args.tables[k]
               lines == SplitLines(result.value[k].page_content)
           IN /\ Len(lines) = 3 + Len(t.rows)
              /\ lines[1] = <<"Table: ", t.name>>
              /\ lines[2] = <<"Columns: ">>
                              \o JoinWith([c \in 1..Len(t.cols) |-> <<t.cols[c]>>], <<", ">>)
              /\ lines[3] = <<"Rows:">>
              /\ \A r \in 1..Len(t.rows) : lines[3 + r] = RowStr(t.rows[r])

C8_Witness ==
    /\ SqlDone
    /\ args.ok
    /\ Len(args.tables) = 2
    /\ Len(args.tables[1].rows) = 2
    /\ args.tables[1].rows[1] # args.tables[1].rows[2]
    /\ args.tables[2].rows = <<>>
    /\ Len(result.value) = 2

HandlerDone == op = "read_pdf_via_handler" /\ pc = "done"

\* C10: read_pdf_via_handler raises RuntimeError without calling the handler
\* when it has neither method; with read_pdf it returns read_pdf(path) and
\* never calls read_; only without read_pdf and with read_ it returns
\* read_(path).
C10_HandlerProbe ==
    HandlerDone =>
      LET h == args.handler
      IN /\ (~h.has_read_pdf /\ ~h.has_read_) =>
              (result = Raise(Error("RuntimeError")) /\ called = <<>>)
         /\ h.has_read_pdf =>
              (result = CallMethod(h, "read_pdf", args.path) /\ called = <<"read_pdf">>)
         /\ (~h.has_read_pdf /\ h.has_read_) =>
              (result = CallMethod(h, "read_", args.path) /\ called = <<"read_">>)

C10_Witness ==
    /\ HandlerDone
    /\ args.handler.has_read_pdf
    /\ args.handler.has_read_
    /\ args.handler.read_pdf = "text"
    /\ result.kind = "return"

AnalysisDone == op = "concat_for_analysis" /\ pc = "done"

\* The label the specification gives a Document: its non-empty `source`,
\* else its non-empty `file_path`, else the literal unknown.
ExpectedLabel(d) ==
    IF d.metadata.source \notin {None, {<<>>}} THEN TheValue(d.metadata.source)
    ELSE IF d.metadata.file_path \notin {None, {<<>>}} THEN TheValue(d.metadata.file_path)
    ELSE <<"unknown">>

HeaderOpen == <<"\n">> \o SOURCE_MARKER \o <<" ">>
HeaderClose == <<" ", "---", "\n">>

RECURSIVE ParseLabels(_, _, _)
\* Reads the aggregated text back: at `pos` a header must open; its label
\* runs to the first closing " ---\n"; the content of the Document and the
\* joining newline are skipped by length.
ParseLabels(text, pos, ds) ==
    IF ds = <<>> THEN <<>>
    ELSE IF ~OccursAt(HeaderOpen, text, pos) THEN << <<"?no header">> >>
    ELSE LET start == pos + Len(HeaderOpen)
             closes == {k \in start..Len(text) : OccursAt(HeaderClose, text, k)}
         IN IF closes = {} THEN << <<"?unterminated">> >>
            ELSE << SubSeq(text, start, Min(closes) - 1) >>
                   \o ParseLabels(text,
                                  Min(closes) + Len(HeaderClose)
                                    + Len(Head(ds).page_content) + 1,
                                  Tail(ds))

\* C7: the label written into each header of concat_for_analysis is never
\* empty: it is the Document's non-empty source, else its non-empty
\* file_path, else unknown, also for empty metadata and empty-string values.
C7_LabelNeverEmpty ==
    AnalysisDone =>
      LET labels == ParseLabels(result.value, 1, args)
      IN /\ Len(labels) = Len(args)
         /\ \A k \in 1..Len(args) :
              /\ labels[k] # <<>>
              /\ labels[k] = ExpectedLabel(args[k])

C7_Witness ==
    /\ AnalysisDone
    /\ Len(args) = 2
    /\ args[1].metadata = [source |-> {<<>>}, file_path |-> {<<"f">>}]
    /\ args[2].metadata = [source |-> None, file_path |-> {<<>>}]

\* The header of Document d stands at position pos of the text, from its
\* marker on.
HeaderOfAt(d, text, pos) ==
    OccursAt(SOURCE_MARKER \o <<" ">> \o ExpectedLabel(d) \o HeaderClose \o d.page_content,
             text, pos)

MarkersInOrder(ds, text) ==
    LET occ == Occurrences(SOURCE_MARKER, text)
    IN /\ Cardinality(occ) = Len(ds)
       /\ \A k \in 1..Len(ds) : HeaderOfAt(ds[k], text, NthSmallest(occ, k))

SourceMarkerFree(ds) ==
    \A k \in 1..Len(ds) :
      /\ ~Contains(SOURCE_MARKER, ds[k].page_content)
      /\ ~Contains(SOURCE_MARKER, ExpectedLabel(ds[k]))

\* C3 as stated: concat_for_analysis returns the empty string for no
\* Documents, and for N Documents of any content and metadata the output
\* holds exactly N markers "--- SOURCE:", the i-th the header of the i-th.
C3_ExactlyNMarkers ==
    AnalysisDone =>
      /\ args = <<>> => result.value = <<>>
      /\ MarkersInOrder(args, result.value)

\* C3 amended: the same, for Documents whose content and source label do
\* not themselves contain the text "--- SOURCE:".
C3_ExactlyNMarkersWhenMarkerFree ==
    AnalysisDone =>
      /\ args = <<>> => result.value = <<>>
      /\ SourceMarkerFree(args) => MarkersInOrder(args, result.value)

C3_Witness ==
    /\ AnalysisDone
    /\ Len(args) = 2
    /\ SourceMarkerFree(args)
    /\ args[1].page_content = <<>>
    /\ args[2].page_content # <<>>
    /\ Cardinality(Occurrences(SOURCE_MARKER, result.value)) = 2

ComparisonDone == op = "concat_for_comparison" /\ pc = "done"

OnceEachInOrder(text) ==
    LET refs == Occurrences(REFERENCE_MARKER, text)
        acts == Occurrences(ACTUAL_MARKER, text)
    IN /\ Cardinality(refs) = 1
       /\ Cardinality(acts) = 1
       /\ \A r \in refs : \A a \in acts : r < a

BlockMarkerFree(ds) ==
    \A k \in 1..Len(ds) :
      \A m \in {REFERENCE_MARKER, ACTUAL_MARKER} :
        /\ ~Contains(m, ds[k].page_content)
        /\ ~Contains(m, ExpectedLabel(ds[k]))

\* C4 as stated: for every pair of Document sequences, whatever their text,
\* the output of concat_for_comparison holds each of the two block markers
\* exactly once, the reference marker first.
C4_MarkersOnceEach == ComparisonDone => OnceEachInOrder(result.value)

\* C4 amended: the same, for Documents whose content and source label do
\* not themselves contain either block marker.
C4_MarkersOnceEachWhenMarkerFree ==
    ComparisonDone =>
      ((BlockMarkerFree(args.ref) /\ BlockMarkerFree(args.act))
         => OnceEachInOrder(result.value))

C4_Witness ==
    /\ ComparisonDone
    /\ args.ref = <<>>
    /\ args.act # <<>>
    /\ BlockMarkerFree(args.act)
    /\ OnceEachInOrder(result.value)

\* C5: an ingest under a session_id that already exists answers 200 with
\* that same session_id, and the session stays.
C5_ReingestKeepsSessionId ==
    (response.endpoint = "/chat/index" /\ response.existed) =>
      /\ response.status = 200
      /\ response.session_id = response.requested
      /\ sessions[response.requested].exists

C5_Witness ==
    /\ response.endpoint = "/chat/index"
    /\ response.existed
    /\ response.session_id = "sess_update"
    /\ \E sid \in SessionIds \ {"sess_update"} : sessions[sid].exists

====
